---- MODULE Spec2Model ----
(***************************************************************************)
(* Crawl orchestration of scraper.py: main() sequences the cities, builds  *)
(* the task queue of each city, starts CONCURRENT_TABS worker coroutines   *)
(* and drains them; worker() handles one task at a time in its own browser *)
(* context, deduplicates on the shared seen_links set and appends the new  *)
(* rows to the output file.                                                *)
(*                                                                         *)
(* The program runs on one asyncio event loop: a coroutine is interleaved  *)
(* with the others only where it suspends (an await on the browser, on the *)
(* queue or on a sleep).  Each action below is the code that runs between  *)
(* two suspensions.  A call into the browser can complete or raise; both   *)
(* outcomes are drawn with \E.                                             *)
(***************************************************************************)
EXTENDS Integers, Sequences, FiniteSets, TLC

\* ------------------------------------------------------------------ bounds
MaxAreas == 2          \* longest city list read from INPUT_JSON
NumCells == 2          \* grid cells of the largest city
NumLinks == 2          \* distinct canonical links the map provider can return
MaxResults == 2        \* longest list of result cards of one search

\* ------------------------------------------------------- program constants
CONCURRENT_TABS == 2     \* 5 in the source; the number of workers explored here
KEYWORDS == <<"Banque">> \* the first of the 13 keywords
GEOFENCE_KM == 6         \* `if dist > 6.0`
CellSpacingKm == 3       \* STEP_SIZE = 0.025 degrees, in whole km

Cities == 1..MaxAreas
Links == 1..NumLinks
Workers == 1..CONCURRENT_TABS
Queries == {"", "?hl=en"}
NoCoords == -1
\* Where a result card with coordinates can be, in km along the lattice:
\* beyond the geofence of the first cell, within that of the others.
Positions == {8}

\* The sentinel main() enqueues: Python's None.
None == [cell |-> 0, city |-> 0, kw |-> ""]
Task(c, a, k) == [cell |-> c, city |-> a, kw |-> k]

\* ----------------------------------------------------------- pure helpers
RECURSIVE SeqsUpTo(_, _)
SeqsUpTo(S, n) ==
  IF n = 0 THEN {<<>>}
  ELSE LET shorter == SeqsUpTo(S, n - 1)
       IN  shorter \cup {Append(s, x) : s \in {t \in shorter : Len(t) = n - 1}, x \in S}

Range(s) == {s[i] : i \in 1..Len(s)}

\* The number of grid cells of a city follows from its population: the first
\* city of the input is the large one, the others have the smallest grid.
GridSize(city) == IF city = 1 THEN NumCells ELSE 1

\* generate_grid, as the ordered cells of one city (row-major lattice).
generate_grid(city) == [i \in 1..GridSize(city) |-> i]

\* Where a cell is, in km along the lattice.
CellPos(cell) == (cell - 1) * CellSpacingKm

\* calculate_distance in km between two points of the lattice line.
calculate_distance(p, q) == IF p >= q THEN p - q ELSE q - p

\* An element of the result feed: href = base link + query string, and the
\* coordinates found in the href by the !3d..!4d.. pattern, or none.
Elements == [base : Links, query : Queries, pos : Positions \cup {NoCoords}]

\* el['href'].split('?')[0]
CanonicalLink(el) == el.base

\* GeofenceKeeps without the distance test.
GeofenceKeepsAll(cell, el) == TRUE

\* The geofence test of scrape_sector for one element.
GeofenceKeeps(cell, el) ==
  \/ el.pos = NoCoords
  \/ ~(calculate_distance(CellPos(cell), el.pos) > GEOFENCE_KM)

\* The loop over elements in scrape_sector: the list of results it returns.
RECURSIVE ScrapeResults(_, _)
ScrapeResults(cell, els) ==
  IF els = <<>> THEN <<>>
  ELSE LET el == Head(els)
           rest == ScrapeResults(cell, Tail(els))
       IN  IF GeofenceKeeps(cell, el)
           THEN <<[Link |-> CanonicalLink(el),
                   Pos |-> IF el.pos = NoCoords THEN CellPos(cell) ELSE el.pos]>> \o rest
           ELSE rest

\* `for kw in KEYWORDS: queue.put_nowait((lat, lng, city_name, kw))` for one
\* cell of the grid.
CellTasks(cell, city, keywords) ==
  [k \in 1..Len(keywords) |-> Task(cell, city, keywords[k])]

\* The tasks enqueued for one city with a keyword list: `for lat, lng in grid:
\* for kw in KEYWORDS: ...`, cells outer, keywords inner.
RECURSIVE TasksFor(_, _, _)
TasksFor(grid, city, keywords) ==
  IF grid = <<>> THEN <<>>
  ELSE CellTasks(Head(grid), city, keywords) \o TasksFor(Tail(grid), city, keywords)

\* ------------------------------------------- Python floats (IEEE-754 doubles)
\* A float is held as a sign and a magnitude; the magnitude is the integer
\* |x| * 2^FracBits, written in Limbs digits of base Base, least significant
\* first.  Every double met in generate_grid is below 2^8 in magnitude and a
\* multiple of 2^-58 (STEP_SIZE, the smallest operand, lies in [2^-6, 2^-5)),
\* so the magnitudes are exact and an operation is the exact operation on the
\* magnitudes followed by rounding to Significand bits, ties to even.
Significand == 53
FracBits == 58
Base == 32768
Limbs == 5

MagZero == [i \in 1..Limbs |-> 0]
MagOfInt(n) == [i \in 1..Limbs |-> IF i = 1 THEN n % Base
                                   ELSE IF i = 2 THEN n \div Base ELSE 0]

RECURSIVE MagAddFrom(_, _, _, _)
MagAddFrom(a, b, i, carry) ==
  IF i > Limbs THEN <<>>
  ELSE LET s == a[i] + b[i] + carry
       IN  <<s % Base>> \o MagAddFrom(a, b, i + 1, s \div Base)

MagAdd(a, b) == MagAddFrom(a, b, 1, 0)

\* a - b for a >= b.
RECURSIVE MagSubFrom(_, _, _, _)
MagSubFrom(a, b, i, borrow) ==
  IF i > Limbs THEN <<>>
  ELSE LET d == a[i] - b[i] - borrow
       IN  IF d < 0 THEN <<d + Base>> \o MagSubFrom(a, b, i + 1, 1)
           ELSE <<d>> \o MagSubFrom(a, b, i + 1, 0)

MagSub(a, b) == MagSubFrom(a, b, 1, 0)

\* a < b, comparing from digit i down.
RECURSIVE MagLessFrom(_, _, _)
MagLessFrom(a, b, i) ==
  IF i = 0 THEN FALSE
  ELSE IF a[i] # b[i] THEN a[i] < b[i]
  ELSE MagLessFrom(a, b, i - 1)

MagLess(a, b) == MagLessFrom(a, b, Limbs)

\* a * m for a small m.
RECURSIVE MagMulFrom(_, _, _, _)
MagMulFrom(a, m, i, carry) ==
  IF i > Limbs THEN <<>>
  ELSE LET s == a[i] * m + carry
       IN  <<s % Base>> \o MagMulFrom(a, m, i + 1, s \div Base)

MagMul(a, m) == MagMulFrom(a, m, 1, 0)

\* a * 2^k.
RECURSIVE MagShl(_, _)
MagShl(a, k) == IF k <= 14 THEN MagMul(a, 2^k) ELSE MagShl(MagMul(a, 2^14), k - 14)

\* The number of bits of n < Base, and of a magnitude.
BitsOf(n) == CHOOSE b \in 0..15 : n < 2^b /\ (b = 0 \/ n >= 2^(b - 1))
TopLimb(a) == CHOOSE t \in 0..Limbs :
                /\ \A i \in (t + 1)..Limbs : a[i] = 0
                /\ t = 0 \/ a[t] # 0
BitLen(a) == IF TopLimb(a) = 0 THEN 0
             ELSE 15 * (TopLimb(a) - 1) + BitsOf(a[TopLimb(a)])

\* Rounding of an exact magnitude to Significand bits, to nearest, ties to
\* even.  At most 14 low bits are dropped, all of them in the first digit.
RoundMag(a) ==
  LET k == BitLen(a) - Significand
  IN  IF k <= 0 THEN a
      ELSE LET rem == a[1] % 2^k
               low == [a EXCEPT ![1] = @ - rem]
               odd == (a[1] \div 2^k) % 2 = 1
               up == rem > 2^(k - 1) \/ (rem = 2^(k - 1) /\ odd)
           IN  IF up THEN MagAdd(low, MagOfInt(2^k)) ELSE low

FloatZero == [neg |-> FALSE, mag |-> MagZero]

\* x + y
FAdd(x, y) ==
  IF x.neg = y.neg THEN [neg |-> x.neg, mag |-> RoundMag(MagAdd(x.mag, y.mag))]
  ELSE IF x.mag = y.mag THEN FloatZero
  ELSE IF MagLess(x.mag, y.mag)
       THEN [neg |-> y.neg, mag |-> RoundMag(MagSub(y.mag, x.mag))]
       ELSE [neg |-> x.neg, mag |-> RoundMag(MagSub(x.mag, y.mag))]

FNeg(x) == IF x.mag = MagZero THEN x ELSE [x EXCEPT !.neg = ~@]

\* x - y
FSub(x, y) == FAdd(x, FNeg(y))

\* x < y and x <= y
FLess(x, y) ==
  IF x.neg /\ ~y.neg THEN TRUE
  ELSE IF ~x.neg /\ y.neg THEN FALSE
  ELSE IF x.neg THEN MagLess(y.mag, x.mag)
  ELSE MagLess(x.mag, y.mag)

FLeq(x, y) == x = y \/ FLess(x, y)

\* Quotient and remainder of a magnitude by a small d, from digit i down with
\* the remainder r of the digits above.
RECURSIVE MagDivFrom(_, _, _, _)
MagDivFrom(a, d, i, r) ==
  IF i = 0 THEN [quot |-> <<>>, rem |-> r]
  ELSE LET cur == r * Base + a[i]
           below == MagDivFrom(a, d, i - 1, cur % d)
       IN  [quot |-> below.quot \o <<cur \div d>>, rem |-> below.rem]

MagDiv(a, d) == MagDivFrom(a, d, Limbs, 0)

\* The exponent e of n/d: 2^e <= n/d < 2^(e+1), for n/d in [2^-6, 2^9).
Exponent(n, d) ==
  CHOOSE e \in (-6)..8 : d * 2^(e + 6) <= n * 64 /\ n * 64 < d * 2^(e + 7)

\* The double nearest to n/d for integers n >= 0 and d > 0: the result of the
\* true division n / d, and the value of a decimal literal n/d (33.57 is
\* 3357/100).
FloatOfRatio(n, d) ==
  IF n = 0 THEN FloatZero
  ELSE LET e == Exponent(n, d)
           scaled == MagShl(MagOfInt(n), Significand - 1 - e)
           qr == MagDiv(scaled, d)
           odd == qr.quot[1] % 2 = 1
           up == 2 * qr.rem > d \/ (2 * qr.rem = d /\ odd)
           q == IF up THEN MagAdd(qr.quot, MagOfInt(1)) ELSE qr.quot
       IN  [neg |-> FALSE, mag |-> MagShl(q, e + FracBits - (Significand - 1))]

\* A decimal number of the input file: sign, numerator, denominator.
Decimal(neg, n, d) == [neg |-> neg, n |-> n, d |-> d]
FloatOf(x) == IF x.neg THEN FNeg(FloatOfRatio(x.n, x.d)) ELSE FloatOfRatio(x.n, x.d)

\* ---------------------------------------------------------------- the grid
\* KEYWORDS of the source, accents dropped.
AllKeywords ==
  <<"Banque", "Bank", "Attijariwafa", "Banque Populaire", "Bank of Africa",
    "BMCE", "BMCI", "CIH", "Credit Agricole", "Credit du Maroc",
    "Societe Generale", "Al Barid", "CFG Bank">>

\* The tasks main() enqueues for one city of the crawl.
TasksOf(grid, city) == TasksFor(grid, city, KEYWORDS)

\* ------------------------------------------------------------------ state
VARIABLES
  inputJson,    \* INPUT_JSON on disk: [exists, data]
  priorFile,    \* OUTPUT_FILE as found at startup: [exists, readable, links]
  mainpc,       \* where main() is suspended
  cities,       \* the list load_cities() returned
  cur,          \* index of the city being processed
  browsers,     \* cities whose browser is launched and not closed
  queue,        \* the asyncio.Queue of the current city
  unfinished,   \* the queue's count of items put and not yet task_done
  seen_links,   \* the shared dedup set
  ws,           \* the worker coroutines of the current city
  fileExists,   \* os.path.isfile(OUTPUT_FILE)
  headers,      \* header lines written to OUTPUT_FILE in this run
  output,       \* rows appended to OUTPUT_FILE in this run, in file order
  claims,       \* history: the links of the successful check-and-inserts, in order
  found,        \* history: per link, the number of tasks whose search returned
                \* it, and whether one of them ended with an exception
  outcome,      \* history: per task of the current city, how its handling went
  gridCall,     \* the frame of a call of generate_grid made on its own
  sectorCall    \* the frame of a call of scrape_sector's filter made on its own

vars == <<inputJson, priorFile, mainpc, cities, cur, browsers, queue, unfinished,
          seen_links, ws, fileExists, headers, output, claims, found, outcome,
          gridCall, sectorCall>>

crawlVars == <<inputJson, priorFile, mainpc, cities, cur, browsers, queue,
               unfinished, seen_links, ws, fileExists, headers, output, claims,
               found, outcome>>
callVars == <<gridCall, sectorCall>>

mainVars == <<mainpc, cities, cur, browsers>>
fileVars == <<fileExists, headers, output>>
diskVars == <<inputJson, priorFile>>

NoTask == None

\* What is recorded of the handling of a task: how it ended and the links it
\* claimed.
NotHandled == [end |-> "none", claimed |-> {}]
IdleWorker == [pc |-> "idle", area |-> 0, task |-> NoTask, open |-> 0,
               discovered |-> <<>>, i |-> 0, new_rows |-> <<>>]
FreshWorker(a) == [IdleWorker EXCEPT !.pc = "get", !.area = a]

InputFiles ==
  {[exists |-> FALSE, data |-> <<>>]}
  \cup {[exists |-> TRUE, data |-> [i \in 1..n |-> i]] : n \in 0..MaxAreas}

PriorFiles ==
  {[exists |-> FALSE, readable |-> FALSE, links |-> {}]}
  \cup [exists : {TRUE}, readable : BOOLEAN, links : SUBSET Links]

\* No call of a function on its own is in progress.
NoCall == [pc |-> "none"]

\* The state of the crawl when main() is entered.
CrawlInit ==
  /\ inputJson \in InputFiles
  /\ priorFile \in PriorFiles
  /\ mainpc = "load_cities"
  /\ cities = <<>>
  /\ cur = 0
  /\ browsers = {}
  /\ queue = <<>>
  /\ unfinished = 0
  /\ seen_links = {}
  /\ ws = [w \in Workers |-> IdleWorker]
  /\ fileExists = priorFile.exists
  /\ headers = 0
  /\ output = <<>>
  /\ claims = <<>>
  /\ found = [l \in Links |-> [tasks |-> 0, raised |-> FALSE]]
  /\ outcome = <<>>

Init == CrawlInit /\ gridCall = NoCall /\ sectorCall = NoCall

\* ------------------------------------------------------------------ main()
\* load_cities()
load_cities(file) == IF file.exists THEN file.data ELSE <<>>

\* SeedLinks that ignores the prior output.
SeedNothing(file) == {}

\* The seeding of seen_links from the prior output; a failed read is swallowed.
SeedLinks(file) == IF file.exists /\ file.readable THEN file.links ELSE {}

\* main() from its start to its first suspension.
MainStart ==
  /\ mainpc = "load_cities"
  /\ cities' = load_cities(inputJson)
  /\ seen_links' = SeedLinks(priorFile)
  /\ IF cities' = <<>>
       THEN mainpc' = "Done" /\ cur' = 0
       ELSE mainpc' = "launch" /\ cur' = 1
  /\ UNCHANGED <<browsers, queue, unfinished, ws, fileVars, diskVars, callVars,
                 claims, found, outcome>>

\* p.chromium.launch() completes: the queue is filled, the workers are created
\* and main() suspends in queue.join().  If it raises, main() ends with it.
Launch ==
  /\ mainpc = "launch"
  /\ \E ok \in BOOLEAN :
       IF ok
       THEN /\ browsers' = browsers \cup {cur}
            /\ queue' = TasksOf(generate_grid(cities[cur]), cities[cur])
            /\ unfinished' = Len(queue')
            /\ ws' = [w \in Workers |-> FreshWorker(cur)]
            /\ outcome' = [t \in Range(queue') |-> NotHandled]
            /\ mainpc' = "join"
       ELSE /\ mainpc' = "raised"
            /\ UNCHANGED <<browsers, queue, unfinished, ws, outcome>>
  /\ UNCHANGED <<cities, cur, seen_links, fileVars, diskVars, callVars, claims, found>>

\* Sentinels with one sentinel too few.
SentinelsShort == [k \in 1..(CONCURRENT_TABS - 1) |-> None]

\* The sentinels main() puts after queue.join(): one None per worker.
Sentinels == [k \in 1..CONCURRENT_TABS |-> None]

\* queue.join() returns: the sentinels are put and main() suspends in gather.
JoinReturns ==
  /\ mainpc = "join"
  /\ unfinished = 0
  /\ queue' = queue \o Sentinels
  /\ unfinished' = unfinished + Len(Sentinels)
  /\ mainpc' = "gather"
  /\ UNCHANGED <<cities, cur, browsers, seen_links, ws, fileVars, diskVars, callVars,
                 claims, found, outcome>>

\* GatherReturns that does not wait for the workers.
GatherReturnsEarly ==
  /\ mainpc = "gather"
  /\ mainpc' = "browser_close"
  /\ UNCHANGED <<cities, cur, browsers, queue, unfinished, seen_links, ws,
                 fileVars, diskVars, callVars, claims, found, outcome>>

\* asyncio.gather(*workers) returns, or raises the exception of a worker.
GatherReturns ==
  /\ mainpc = "gather"
  /\ \/ /\ \A w \in Workers : ws[w].pc = "exited"
        /\ mainpc' = "browser_close"
     \/ /\ \E w \in Workers : ws[w].pc = "raised"
        /\ mainpc' = "raised"
  /\ UNCHANGED <<cities, cur, browsers, queue, unfinished, seen_links, ws,
                 fileVars, diskVars, callVars, claims, found, outcome>>

\* browser.close() completes (every context of the browser goes with it) and
\* main() suspends in the cooldown sleep; if it raises, main() ends with it.
BrowserClose ==
  /\ mainpc = "browser_close"
  /\ \E ok \in BOOLEAN :
       IF ok
       THEN /\ browsers' = browsers \ {cur}
            /\ ws' = [w \in Workers |-> [ws[w] EXCEPT !.open = 0]]
            /\ mainpc' = "sleep"
       ELSE /\ mainpc' = "raised"
            /\ UNCHANGED <<browsers, ws>>
  /\ UNCHANGED <<cities, cur, queue, unfinished, seen_links, fileVars, diskVars, callVars,
                 claims, found, outcome>>

\* asyncio.sleep(3) returns: the next city, or the end of the run.
Cooldown ==
  /\ mainpc = "sleep"
  /\ IF cur < Len(cities)
       THEN cur' = cur + 1 /\ mainpc' = "launch"
       ELSE cur' = cur /\ mainpc' = "Done"
  /\ UNCHANGED <<cities, browsers, queue, unfinished, seen_links, ws, fileVars,
                 diskVars, callVars, claims, found, outcome>>

\* ---------------------------------------------------------------- worker()
Me(w, r) == [ws EXCEPT ![w] = r]

\* queue.get() of a worker whose record is r: it takes the head of the queue,
\* ends its loop on the sentinel, or stays suspended on an empty queue.
AfterGet(r, q) ==
  IF q = <<>> THEN [r EXCEPT !.pc = "get", !.task = NoTask]
  ELSE IF Head(q) = None THEN [r EXCEPT !.pc = "exited", !.task = NoTask]
  ELSE [r EXCEPT !.pc = "new_context", !.task = Head(q)]

\* QueueAfterGet that leaves the item in the queue.
QueueAfterPeek(q) == q

\* The queue once get() has returned its head.
QueueAfterGet(q) == IF q = <<>> THEN q ELSE Tail(q)

\* A worker suspended in queue.get() is resumed with an item.
QueueGet(w) ==
  /\ ws[w].pc = "get"
  /\ queue # <<>>
  /\ ws' = Me(w, AfterGet(ws[w], queue))
  /\ queue' = QueueAfterGet(queue)
  /\ UNCHANGED <<mainVars, unfinished, seen_links, fileVars, diskVars, callVars,
                 claims, found, outcome>>

\* browser.new_context(...) completes or raises; it is called outside the try.
NewContext(w) ==
  /\ ws[w].pc = "new_context"
  /\ \E ok \in BOOLEAN :
       ws' = Me(w, IF ok THEN [ws[w] EXCEPT !.pc = "route", !.open = @ + 1]
                        ELSE [ws[w] EXCEPT !.pc = "raised"])
  /\ UNCHANGED <<mainVars, queue, unfinished, seen_links, fileVars, diskVars, callVars,
                 claims, found, outcome>>

\* context.route(...) completes or raises; it is called outside the try.
ContextRoute(w) ==
  /\ ws[w].pc = "route"
  /\ \E ok \in BOOLEAN :
       ws' = Me(w, IF ok THEN [ws[w] EXCEPT !.pc = "scrape_sector"]
                        ELSE [ws[w] EXCEPT !.pc = "raised"])
  /\ UNCHANGED <<mainVars, queue, unfinished, seen_links, fileVars, diskVars, callVars,
                 claims, found, outcome>>

\* NextUnseen without the `link not in seen_links` test.
NextUnseenNoCheck(items, i, seen) == i

\* The first index from i on of an item whose link is not in seen, or
\* Len(items) + 1: the items the loop of worker() passes over.
RECURSIVE NextUnseen(_, _, _)
NextUnseen(items, i, seen) ==
  IF i > Len(items) THEN i
  ELSE IF items[i].Link \notin seen THEN i
  ELSE NextUnseen(items, i + 1, seen)

\* ClaimLink that forgets the insert.
ClaimLinkForget(seen, link) == seen

\* The check-and-insert of worker(): the set after the claim of link.
ClaimLink(seen, link) == seen \cup {link}

\* ToFinally without the `except Exception: pass` and the finally clause: the
\* exception ends the worker.
ToFinallyUncaught(r) == [r EXCEPT !.pc = "raised"]

\* The end of the try block: the exception handler or the normal end leads to
\* the finally clause, where the worker suspends in context.close().
ToFinally(r) == [r EXCEPT !.pc = "context_close", !.discovered = <<>>,
                          !.i = 0, !.new_rows = <<>>]

\* AppendRows that writes the rows of the task last row first.
AppendRowsReversed(rows, ok) ==
  IF ok
  THEN /\ output' = output \o [k \in 1..Len(rows) |-> rows[Len(rows) + 1 - k]]
       /\ headers' = headers + (IF fileExists THEN 0 ELSE 1)
       /\ fileExists' = TRUE
  ELSE UNCHANGED fileVars

\* AppendRows with header=True on every append.
AppendRowsHeaderAlways(rows, ok) ==
  IF ok
  THEN /\ output' = output \o rows
       /\ headers' = headers + 1
       /\ fileExists' = TRUE
  ELSE UNCHANGED fileVars

\* header = not os.path.isfile(OUTPUT_FILE); df.to_csv(OUTPUT_FILE, mode='a',
\* header=header): the rows are appended, after the header line when the file
\* did not exist, or the call raises and nothing is appended.  No suspension
\* separates the isfile test from the write.
AppendRows(rows, ok) ==
  IF ok
  THEN /\ output' = output \o rows
       /\ headers' = headers + (IF fileExists THEN 0 ELSE 1)
       /\ fileExists' = TRUE
  ELSE UNCHANGED fileVars

\* The loop `for item in discovered_banks` of worker w from item `from` on,
\* with the rows collected so far, up to the next suspension: either the next
\* unseen link is claimed and the worker suspends in get_place_details, or the
\* loop ends, the new rows (if any) are written (`wrote`: to_csv did not raise)
\* and the worker reaches finally.
LoopOn(w, items, from, rows, wrote) ==
  LET j == NextUnseen(items, from, seen_links)
      t == ws[w].task
  IN  IF j <= Len(items)
      THEN /\ seen_links' = ClaimLink(seen_links, items[j].Link)
           /\ claims' = Append(claims, items[j].Link)
           /\ ws' = Me(w, [ws[w] EXCEPT !.pc = "get_place_details",
                                        !.discovered = items, !.i = j,
                                        !.new_rows = rows])
           /\ outcome' = [outcome EXCEPT ![t].claimed = @ \cup {items[j].Link}]
           /\ UNCHANGED fileVars
      ELSE /\ UNCHANGED <<seen_links, claims>>
           /\ ws' = Me(w, ToFinally(ws[w]))
           /\ IF rows = <<>>
                THEN /\ UNCHANGED fileVars
                     /\ outcome' = [outcome EXCEPT ![t].end = "ok"]
                ELSE /\ AppendRows(rows, wrote)
                     /\ outcome' = [outcome EXCEPT
                          ![t].end = IF wrote THEN "ok" ELSE "write_raised"]

LinksOf(items) == {items[k].Link : k \in 1..Len(items)}

\* found, once a task whose results are items has ended with an exception.
Raised(items) ==
  [l \in Links |-> IF l \in LinksOf(items) THEN [found[l] EXCEPT !.raised = TRUE]
                   ELSE found[l]]

\* scrape_sector(context, lat, lng, keyword) returns its results, or fails: it
\* returns [] on a failure it swallows (a navigation timeout), or it raises
\* (new_page before its try, page.close in its finally) and worker() swallows
\* the exception.  Either failure leaves the worker in finally with no row.
ScrapeSector(w) ==
  /\ ws[w].pc = "scrape_sector"
  /\ LET t == ws[w].task IN
       \/ \E els \in SeqsUpTo(Elements, MaxResults) :
            LET results == ScrapeResults(t.cell, els) IN
              /\ found' = [l \in Links |->
                            IF l \in LinksOf(results)
                            THEN [found[l] EXCEPT !.tasks = @ + 1] ELSE found[l]]
              /\ LoopOn(w, results, 1, <<>>, TRUE)
       \/ /\ outcome' = [outcome EXCEPT ![t].end = "search_failed"]
          /\ ws' = Me(w, ToFinally(ws[w]))
          /\ UNCHANGED <<seen_links, claims, fileVars, found>>
  /\ UNCHANGED <<mainVars, queue, unfinished, diskVars, callVars>>

\* The row worker() builds for an item.
NewRow(item, t) == [Link |-> item.Link, City |-> t.city, Pos |-> item.Pos]

\* get_place_details(context, link) returns an address (or "Unknown"), or
\* raises (new_page before its try, page.close in its finally); worker()
\* swallows the exception and the rows collected so far are dropped.
GetPlaceDetails(w) ==
  /\ ws[w].pc = "get_place_details"
  /\ LET r == ws[w] IN
       \/ \E wrote \in BOOLEAN :
            /\ LoopOn(w, r.discovered, r.i + 1,
                      Append(r.new_rows, NewRow(r.discovered[r.i], r.task)), wrote)
            /\ found' = IF outcome'[r.task].end = "write_raised"
                          THEN Raised(r.discovered) ELSE found
       \/ /\ outcome' = [outcome EXCEPT ![r.task].end = "detail_raised"]
          /\ ws' = Me(w, ToFinally(r))
          /\ found' = Raised(r.discovered)
          /\ UNCHANGED <<seen_links, claims, fileVars>>
  /\ UNCHANGED <<mainVars, queue, unfinished, diskVars, callVars>>

\* Closed that leaves the context open.
ClosedLeak(r) == r

\* The worker's record once context.close() has completed.
Closed(r) == [r EXCEPT !.open = @ - 1]

\* context.close() in the finally clause completes: task_done() and the next
\* queue.get() follow without suspension.  If it raises, the worker ends with
\* the exception and task_done() is not reached.
ContextClose(w) ==
  /\ ws[w].pc = "context_close"
  /\ \E ok \in BOOLEAN :
       IF ok
       THEN /\ unfinished' = unfinished - 1
            /\ ws' = Me(w, AfterGet(Closed(ws[w]), queue))
            /\ queue' = QueueAfterGet(queue)
       ELSE /\ ws' = Me(w, [ws[w] EXCEPT !.pc = "raised"])
            /\ UNCHANGED <<queue, unfinished>>
  /\ UNCHANGED <<mainVars, seen_links, fileVars, diskVars, callVars, claims, found, outcome>>

Worker(w) ==
  \/ QueueGet(w)
  \/ NewContext(w)
  \/ ContextRoute(w)
  \/ ScrapeSector(w)
  \/ GetPlaceDetails(w)
  \/ ContextClose(w)

Main ==
  \/ MainStart
  \/ Launch
  \/ JoinReturns
  \/ GatherReturns
  \/ BrowserClose
  \/ Cooldown

Next == Main \/ \E w \in Workers : Worker(w)

Spec == Init /\ [][Next]_vars

\* The event loop runs every coroutine that is ready.
FairSpec == Spec /\ WF_vars(Main) /\ \A w \in Workers : WF_vars(Worker(w))

\* ------------------------------------------- generate_grid run on its own
\* generate_grid(city_data) and the queue main() builds from its result, run
\* step by step on cities drawn from a few centers and populations, with the
\* arithmetic of Python floats.
Min(a, b) == IF a <= b THEN a ELSE b
Max(a, b) == IF a >= b THEN a ELSE b

STEP_SIZE == FloatOfRatio(25, 1000)
LAT_KM == 111
LNG_KM == 90
DEFAULT_POPULATION == 50000
NoPopulation == -1

\* radius_km without the clamp.
radius_km_unclamped(pop) == pop \div 100000

\* radius_km = min(15, max(4, int(pop / 100000)))
radius_km(pop) == Min(15, Max(4, pop \div 100000))

\* city_data.get('population', 50000)
Population(city) ==
  IF city.population = NoPopulation THEN DEFAULT_POPULATION ELSE city.population

lat_range(city) == FloatOfRatio(radius_km(Population(city)), LAT_KM)
lng_range(city) == FloatOfRatio(radius_km(Population(city)), LNG_KM)

Casablanca == [lat |-> Decimal(FALSE, 3357, 100), lng |-> Decimal(TRUE, 759, 100)]
Casablanca3M ==
  [lat |-> Casablanca.lat, lng |-> Casablanca.lng, population |-> 3000000]
GridCenters ==
  {Casablanca,
   [lat |-> Decimal(FALSE, 34, 1), lng |-> Decimal(FALSE, 1, 1)],
   [lat |-> Decimal(FALSE, 3402, 100), lng |-> Decimal(TRUE, 684, 100)]}
GridPopulations == {NoPopulation, 420000, 900000, 3000000}
GridCities ==
  {[lat |-> c.lat, lng |-> c.lng, population |-> p] :
     c \in GridCenters, p \in GridPopulations}

GridFrame(city) ==
  [pc |-> "enter", city |-> city, curr_lat |-> FloatZero, end_lat |-> FloatZero,
   start_lng |-> FloatZero, end_lng |-> FloatZero, curr_lng |-> FloatZero,
   points |-> <<>>, cell |-> 0, queue |-> <<>>]

GridInit ==
  /\ CrawlInit
  /\ ~inputJson.exists /\ ~priorFile.exists
  /\ gridCall \in {GridFrame(city) : city \in GridCities}
  /\ sectorCall = NoCall

\* generate_grid from its entry to the first test of the outer loop.
GridEnter ==
  /\ gridCall.pc = "enter"
  /\ LET lat == FloatOf(gridCall.city.lat)
         lng == FloatOf(gridCall.city.lng)
     IN  gridCall' = [gridCall EXCEPT
           !.pc = "outer",
           !.curr_lat = FSub(lat, lat_range(gridCall.city)),
           !.end_lat = FAdd(lat, lat_range(gridCall.city)),
           !.start_lng = FSub(lng, lng_range(gridCall.city)),
           !.end_lng = FAdd(lng, lng_range(gridCall.city))]
  /\ UNCHANGED <<crawlVars, sectorCall>>

\* `while curr_lat <= end_lat: curr_lng = start_lng`, or `return points`.
GridOuter ==
  /\ gridCall.pc = "outer"
  /\ IF FLeq(gridCall.curr_lat, gridCall.end_lat)
       THEN gridCall' = [gridCall EXCEPT !.pc = "inner", !.curr_lng = gridCall.start_lng]
       ELSE gridCall' = [gridCall EXCEPT !.pc = "return"]
  /\ UNCHANGED <<crawlVars, sectorCall>>

\* `while curr_lng <= end_lng: points.append(...); curr_lng += STEP_SIZE`, or
\* `curr_lat += STEP_SIZE` after the inner loop.
GridInner ==
  /\ gridCall.pc = "inner"
  /\ IF FLeq(gridCall.curr_lng, gridCall.end_lng)
       THEN gridCall' = [gridCall EXCEPT
              !.points = Append(@, [lat |-> gridCall.curr_lat,
                                    lng |-> gridCall.curr_lng]),
              !.curr_lng = FAdd(@, STEP_SIZE)]
       ELSE gridCall' = [gridCall EXCEPT
              !.pc = "outer", !.curr_lat = FAdd(@, STEP_SIZE)]
  /\ UNCHANGED <<crawlVars, sectorCall>>

\* main() fills the queue from the grid with the keyword list of the source,
\* one cell of `for lat, lng in grid` at a time, then reads queue.qsize().
GridEnqueue ==
  /\ gridCall.pc = "return"
  /\ IF gridCall.cell < Len(gridCall.points)
       THEN gridCall' = [gridCall EXCEPT
              !.cell = @ + 1,
              !.queue = @ \o CellTasks(gridCall.cell + 1, 1, AllKeywords)]
       ELSE gridCall' = [gridCall EXCEPT !.pc = "enqueued"]
  /\ UNCHANGED <<crawlVars, sectorCall>>

GridNext == GridEnter \/ GridOuter \/ GridInner \/ GridEnqueue

GridSpec == GridInit /\ [][GridNext]_vars

\* ---------------------------- scrape_sector's filter and the claim loop run
\* on their own: SectorTasks tasks handled one after the other by one worker,
\* without a failure, each on a cell and a result feed drawn afresh, sharing
\* the set of seen links and the output.
SectorTasks == 2

SectorFrame(cell, els) ==
  [pc |-> "scrape", cell |-> cell, els |-> els, results |-> <<>>, i |-> 0,
   new_rows |-> <<>>, seen |-> {}, output |-> <<>>, done |-> <<>>]

SectorInit ==
  /\ CrawlInit
  /\ ~inputJson.exists /\ ~priorFile.exists
  /\ gridCall = NoCall
  /\ sectorCall \in {SectorFrame(cell, els) :
                       cell \in 1..NumCells, els \in SeqsUpTo(Elements, MaxResults)}

\* scrape_sector returns the results of the feed for the cell.
SectorScrape ==
  /\ sectorCall.pc = "scrape"
  /\ sectorCall' = [sectorCall EXCEPT
       !.pc = "loop", !.i = 1,
       !.results = ScrapeResults(sectorCall.cell, sectorCall.els)]
  /\ UNCHANGED <<crawlVars, gridCall>>

\* One turn of `for item in discovered_banks`: the next unseen link is claimed
\* and its row collected, or the loop ends and the rows are written.
SectorLoop ==
  /\ sectorCall.pc = "loop"
  /\ LET c == sectorCall
         j == NextUnseen(c.results, c.i, c.seen)
     IN  IF j <= Len(c.results)
         THEN sectorCall' = [c EXCEPT
                !.seen = ClaimLink(@, c.results[j].Link),
                !.new_rows = Append(@, NewRow(c.results[j],
                                              Task(c.cell, 1, KEYWORDS[1]))),
                !.i = j + 1]
         ELSE sectorCall' = [c EXCEPT
                !.pc = "written",
                !.output = @ \o c.new_rows,
                !.done = Append(@, [cell |-> c.cell, els |-> c.els,
                                    rows |-> c.new_rows])]
  /\ UNCHANGED <<crawlVars, gridCall>>

\* The worker takes its next task.
SectorNextTask ==
  /\ sectorCall.pc = "written"
  /\ Len(sectorCall.done) < SectorTasks
  /\ \E cell \in 1..NumCells, els \in SeqsUpTo(Elements, MaxResults) :
       sectorCall' = [sectorCall EXCEPT
         !.pc = "scrape", !.cell = cell, !.els = els, !.results = <<>>,
         !.i = 0, !.new_rows = <<>>]
  /\ UNCHANGED <<crawlVars, gridCall>>

SectorNext == SectorScrape \/ SectorLoop \/ SectorNextTask

SectorSpec == SectorInit /\ [][SectorNext]_vars

\* ------------------------------------------------------------ properties
OutLinks == {output[i].Link : i \in 1..Len(output)}
RowsOf(l) == Cardinality({i \in 1..Len(output) : output[i].Link = l})
ClaimsOf(l) == Cardinality({i \in 1..Len(claims) : claims[i] = l})
Seed == SeedLinks(priorFile)

RECURSIVE SumOpen(_)
SumOpen(S) ==
  IF S = {} THEN 0
  ELSE LET w == CHOOSE x \in S : TRUE IN ws[w].open + SumOpen(S \ {w})

\* The browser contexts open at this instant.
OpenSessions == SumOpen(Workers)

Handling(w) == ws[w].pc \in {"new_context", "route", "scrape_sector",
                             "get_place_details", "context_close"}
Live(w) == ws[w].pc \in {"get"} \/ Handling(w)

\* C1: in one run no two rows appended to the output have the same link, and
\* for each link at most one check-and-insert into seen_links succeeds,
\* whatever the interleaving of the workers and whichever tasks return it.
C1_AtMostOneEmission ==
  \A l \in Links : RowsOf(l) <= 1 /\ ClaimsOf(l) <= 1

\* C1 witness: a link returned by two tasks (or twice by one and once by
\* another) has been claimed and written.
C1_Witness ==
  \E l \in Links : found[l].tasks >= 2 /\ ClaimsOf(l) = 1 /\ RowsOf(l) = 1

\* C2 as stated: a link of the prior output is never appended again, whenever
\* the prior output exists.
C2_Original ==
  priorFile.exists => \A l \in priorFile.links : RowsOf(l) = 0

\* C2 amended: when the prior output exists and is read successfully at
\* startup, no row whose link is in its link column is appended in the run.
C2_Resumable ==
  (priorFile.exists /\ priorFile.readable) => \A l \in priorFile.links : RowsOf(l) = 0

\* C2 witness: a link of the readable prior output was returned by a search of
\* a task that ended normally, and the run is over.
C2_Witness ==
  /\ priorFile.exists /\ priorFile.readable
  /\ mainpc = "Done"
  /\ \E l \in priorFile.links : found[l].tasks >= 1 /\ RowsOf(l) = 0
  /\ output # <<>>

\* C3: at every instant at most CONCURRENT_TABS browser contexts are open, and
\* no worker holds more than one.
C3_SessionBound ==
  /\ OpenSessions <= CONCURRENT_TABS
  /\ \A w \in Workers : ws[w].open <= 1

\* C3 witness: every worker holds an open context at the same instant, one of
\* them for its second task.
C3_Witness ==
  /\ OpenSessions = CONCURRENT_TABS
  /\ \E t \in DOMAIN outcome : outcome[t].end # "none"

FailedEnds == {"search_failed", "detail_raised", "write_raised"}
HandledTasks == DOMAIN outcome

C4_State ==
  /\ \A t \in HandledTasks :
       /\ outcome[t].end \in FailedEnds => outcome[t].claimed \cap OutLinks = {}
       /\ outcome[t].end = "ok" => outcome[t].claimed \subseteq OutLinks
  /\ mainpc \in {"gather", "browser_close", "sleep"} =>
       \A t \in HandledTasks : outcome[t].end # "none"

C4_Step ==
  \A w \in Workers :
    /\ ws[w].pc \in {"scrape_sector", "get_place_details"} =>
         ws'[w].pc \in {"scrape_sector", "get_place_details", "context_close"}
    /\ (ws'[w].pc = "raised" /\ ws[w].pc # "raised") =>
         ws[w].pc \in {"new_context", "route", "context_close"}

\* C4: a task whose search or processing fails (the search fails, the detail
\* fetch raises, the write raises) leaves no row in the output; the failure
\* never ends the worker, which goes on to the finally clause; and every task
\* of the city that ends normally has the rows of all the links it claimed in
\* the output, every task of the city being handled before the city completes.
C4_FailureIsolation == []C4_State /\ [][C4_Step]_vars

\* C4 witness: a city has completed with one task that failed after claiming a
\* link and another task that claimed links and wrote them.
C4_Witness ==
  /\ mainpc = "sleep"
  /\ \E t1, t2 \in HandledTasks :
       /\ outcome[t1].end \in FailedEnds /\ outcome[t1].claimed # {}
       /\ outcome[t2].end = "ok" /\ outcome[t2].claimed # {}

\* C5 as stated: when the browser cannot be launched for a city, or creating a
\* context fails for a worker, the run neither ends with the exception nor
\* blocks: main() is never ended by an exception and, until it is done, some
\* coroutine can always run.
C5_ProviderFailureSkipsArea ==
  /\ mainpc # "raised"
  /\ mainpc = "Done" \/ ENABLED Next

\* C6 as stated: at the end of the run a link returned by two tasks, not in
\* the seed, has exactly one row in the output.
C6_Original ==
  mainpc = "Done" =>
    \A l \in Links : (found[l].tasks >= 2 /\ l \notin Seed) => RowsOf(l) = 1

C6_State ==
  \A l \in Links :
    (found[l].tasks >= 2 /\ l \notin Seed) =>
      /\ RowsOf(l) <= 1
      /\ \A t \in HandledTasks :
           (outcome[t].end = "ok" /\ l \in outcome[t].claimed) => RowsOf(l) = 1
      /\ (mainpc = "Done" /\ ~found[l].raised) => RowsOf(l) = 1

C6_Step == \A l \in Links : RowsOf(l) = 1 => RowsOf(l)' = 1

\* C6 amended: a link returned by two tasks, not in the seed, has at most one
\* row in the output; it has exactly one row from the moment the task that
\* claimed it ends normally, and the row stays; at the end of the run it has
\* exactly one row unless a task that returned it ended with an exception of
\* a detail fetch or of the write.
C6_DedupIdempotence == []C6_State /\ [][C6_Step]_vars

\* C6 witness: the run is over and a link returned by two tasks, none of which
\* ended with an exception, not in the seed, has exactly one row.
C6_Witness ==
  /\ mainpc = "Done"
  /\ \E l \in Links :
       found[l].tasks >= 2 /\ ~found[l].raised /\ l \notin Seed /\ RowsOf(l) = 1

NumNone(q) == Cardinality({i \in 1..Len(q) : q[i] = None})
NumExited == Cardinality({w \in Workers : ws[w].pc = "exited"})

C7_State ==
  /\ NumNone(queue) > 0 =>
       /\ mainpc = "gather"
       /\ \A i \in 1..Len(queue) : queue[i] = None
       /\ \A t \in HandledTasks : outcome[t].end # "none"
       /\ \A w \in Workers : ~Handling(w)
  /\ mainpc = "gather" =>
       /\ NumNone(queue) + NumExited = CONCURRENT_TABS
       /\ unfinished = CONCURRENT_TABS
  /\ mainpc \in {"browser_close", "sleep"} =>
       /\ \A w \in Workers : ws[w].pc = "exited"
       /\ queue = <<>>
  /\ \A w \in Workers : ws[w].pc = "exited" => ws[w].task = NoTask /\ ws[w].open = 0

C7_Step ==
  \A w \in Workers :
    (ws'[w].pc = "exited" /\ ws[w].pc # "exited") =>
      /\ ws[w].pc = "get"
      /\ queue # <<>> /\ Head(queue) = None /\ queue' = Tail(queue)
      /\ UNCHANGED <<seen_links, fileVars, claims, found, outcome, unfinished>>

\* C7: sentinels are in the queue only after queue.join() has returned, with
\* every task of the city handled and acknowledged and no real task left;
\* exactly CONCURRENT_TABS are put; a worker exits only by taking one sentinel
\* from the queue, changing nothing else; when the city completes every worker
\* has exited and the queue is empty.
C7_ShutdownProtocol == []C7_State /\ [][C7_Step]_vars

\* C7 witness: the second city has completed: all workers exited on their
\* sentinels, queue empty.
C7_Witness ==
  /\ mainpc = "sleep" /\ cur = 2
  /\ NumExited = CONCURRENT_TABS /\ queue = <<>>
  /\ \E t \in HandledTasks : outcome[t].end = "ok"

\* C8 as stated: a worker that is about to take its next task, or that has
\* terminated, holds no open context, and no context is open once the city is
\* complete.
C8_SessionReleased ==
  /\ \A w \in Workers :
       ws[w].pc \in {"get", "new_context", "exited", "raised"} => ws[w].open = 0
  /\ mainpc \in {"sleep", "launch", "Done"} => OpenSessions = 0

\* C9 as stated: under fair scheduling main() eventually reaches Done; with an
\* empty city list it gets there without a browser, a task or a row.
C9_Terminates ==
  /\ <>(mainpc = "Done")
  /\ [](mainpc = "Done" /\ cities = <<>> =>
          browsers = {} /\ queue = <<>> /\ output = <<>>)

C10_State ==
  /\ browsers \subseteq {cur}
  /\ \A w \in Workers : Live(w) =>
       /\ ws[w].area = cur
       /\ mainpc \in {"join", "gather"}
       /\ browsers = {cur}
  /\ mainpc \in {"load_cities", "launch", "sleep", "Done"} => browsers = {}
  /\ mainpc = "launch" => \A w \in Workers : ws[w].pc \in {"idle", "exited"}

C10_Step ==
  /\ cur' \in {cur, cur + 1}
  /\ (mainpc' = "launch" /\ mainpc # "launch") => mainpc \in {"load_cities", "sleep"}
  /\ cur' # cur => mainpc \in {"load_cities", "sleep"}
  /\ browsers' # browsers /\ browsers' # {} => mainpc = "launch" /\ browsers = {}

\* C10: cities are taken in input order, one at a time: the browser and the
\* workers of a city are started only from the launch that follows startup or
\* the cooldown sleep, when no browser is open and every worker of the city
\* before has exited; a live worker always belongs to the current city, whose
\* browser is the only one open.
C10_AreasSequential == []C10_State /\ [][C10_Step]_vars

\* C10 witness: a worker of the second city is handling a task in the second
\* city's browser.
C10_Witness ==
  /\ cur = 2 /\ mainpc = "join" /\ browsers = {2}
  /\ \E w \in Workers : Handling(w) /\ ws[w].area = 2

C11_State ==
  /\ headers <= 1
  /\ headers = 1 <=> (~priorFile.exists /\ output # <<>>)
  /\ fileExists <=> (priorFile.exists \/ output # <<>>)

C11_Step ==
  /\ headers' >= headers
  /\ headers' # headers =>
       ~fileExists /\ ~priorFile.exists /\ output = <<>> /\ output' # <<>>

\* C11: the header line is written at most once in a run: it is written by
\* the first append, and only when the output file did not exist at startup;
\* no later append, of any worker, writes it again.
C11_HeaderOnce == []C11_State /\ [][C11_Step]_vars

\* C11 witness: the output file did not exist at startup, two tasks of one
\* city have each appended rows, and the file holds one header line.
C11_Witness ==
  /\ ~priorFile.exists /\ headers = 1
  /\ \E t1, t2 \in HandledTasks :
       /\ t1 # t2
       /\ outcome[t1].end = "ok" /\ outcome[t1].claimed # {}
       /\ outcome[t2].end = "ok" /\ outcome[t2].claimed # {}

\* C12 as stated: a task whose write failed leaves its worker, when it reaches
\* the finally clause, in a state that differs from that of a worker whose
\* search failed, or the failure is escalated out of the worker.
C12_WriteFailureSurfaced ==
  \A w1, w2 \in Workers :
    ( /\ ws[w1].pc = "context_close" /\ ws[w2].pc = "context_close"
      /\ outcome[ws[w1].task].end = "write_raised"
      /\ outcome[ws[w2].task].end = "search_failed" )
    => [ws[w1] EXCEPT !.task = NoTask] # [ws[w2] EXCEPT !.task = NoTask]

\* The latitudes of the rows of a grid, the cells of one row, and the first
\* point of generate_grid for a city.
RowLats(points) == {points[i].lat : i \in 1..Len(points)}
RowCells(points, lat) == {i \in 1..Len(points) : points[i].lat = lat}
StartLat(city) == FSub(FloatOf(city.lat), lat_range(city))
StartLng(city) == FSub(FloatOf(city.lng), lng_range(city))

\* C13: for the center (33.57, -7.59) with population 3,000,000 the radius is
\* clamped to 15 km and generate_grid returns 11 rows of 14 cells, 154 cells,
\* for which main() enqueues 2002 tasks with the 13 keywords; for every city
\* the number of tasks enqueued is the number of cells times the number of
\* keywords.
C13_GridLoad ==
  gridCall.pc = "enqueued" =>
    /\ Len(gridCall.queue) = Len(gridCall.points) * Len(AllKeywords)
    /\ (gridCall.city = Casablanca3M) =>
         /\ radius_km(Population(gridCall.city)) = 15
         /\ Cardinality(RowLats(gridCall.points)) = 11
         /\ \A lat \in RowLats(gridCall.points) :
              Cardinality(RowCells(gridCall.points, lat)) = 14
         /\ Len(gridCall.points) = 154
         /\ Len(AllKeywords) = 13
         /\ Len(gridCall.queue) = 2002

\* C13 witness: the queue has been filled for the center (33.57, -7.59) with
\* population 3,000,000.
C13_Witness ==
  /\ gridCall.pc = "enqueued"
  /\ gridCall.city = Casablanca3M
  /\ gridCall.queue # <<>>

\* Whether twice the range r / km is a whole number of steps of 0.025, and
\* the number of lattice points from the lower to the upper bound when it is.
WholeSteps(r, km) == (2 * r * 1000) % (25 * km) = 0
LatticePoints(r, km) == (2 * r * 1000) \div (25 * km) + 1

\* C14 as stated: the grid generate_grid returns is not empty; every cell is
\* within [center - range, center + range] on both axes; the cells are in
\* row-major order on a lattice of step STEP_SIZE that starts at the lower
\* bounds, so that the lower-boundary cells are always there; and when twice
\* the range of an axis is a whole number of steps the lattice reaches the
\* upper bound of that axis, the cell on the upper boundary included.
C14_GridCoverage ==
  gridCall.pc \in {"return", "enqueued"} =>
    LET points == gridCall.points
        city == gridCall.city
        r == radius_km(Population(city))
    IN  /\ points # <<>>
        /\ \A i \in 1..Len(points) :
             /\ FLeq(StartLat(city), points[i].lat)
             /\ FLeq(points[i].lat, gridCall.end_lat)
             /\ FLeq(StartLng(city), points[i].lng)
             /\ FLeq(points[i].lng, gridCall.end_lng)
        /\ points[1] = [lat |-> StartLat(city), lng |-> StartLng(city)]
        /\ \A i \in 1..(Len(points) - 1) :
             \/ /\ points[i + 1].lat = points[i].lat
                /\ points[i + 1].lng = FAdd(points[i].lng, STEP_SIZE)
             \/ /\ points[i + 1].lat = FAdd(points[i].lat, STEP_SIZE)
                /\ points[i + 1].lng = StartLng(city)
        /\ WholeSteps(r, LAT_KM) =>
             Cardinality(RowLats(points)) = LatticePoints(r, LAT_KM)
        /\ WholeSteps(r, LNG_KM) =>
             \A lat \in RowLats(points) :
               Cardinality(RowCells(points, lat)) = LatticePoints(r, LNG_KM)

C15_Step ==
  \A w \in Workers :
    ( /\ ws[w].pc = "get_place_details"
      /\ ws'[w].pc = "context_close"
      /\ outcome'[ws[w].task].end # "write_raised" )
    => \A k \in 1..Len(ws[w].new_rows) :
         Cardinality({i \in 1..Len(output') :
                        output'[i].Link = ws[w].new_rows[k].Link}) = 1

\* C15 as stated: when a task leaves its loop over the results without a
\* failure of the write, every row it has built (its link newly claimed, its
\* detail fetch returned) is in the output exactly once, also when the task
\* leaves the loop because the handling of a later result failed.
C15_EnrichedRecordsWritten == [][C15_Step]_vars

\* The links worker w has claimed for the task it is handling and not yet
\* written, and the links claimed in the run that no row and no worker holds.
Held(w) ==
  IF ws[w].pc = "get_place_details"
  THEN LinksOf(ws[w].new_rows) \cup {ws[w].discovered[ws[w].i].Link}
  ELSE {}
Lost == {l \in Range(claims) : l \notin OutLinks /\ \A w \in Workers : l \notin Held(w)}

C16_State ==
  /\ \A w \in Workers : Held(w) \subseteq seen_links /\ Held(w) \cap OutLinks = {}
  /\ OutLinks \subseteq seen_links
  /\ Range(claims) \subseteq seen_links

C16_Step ==
  /\ seen_links \subseteq seen_links'
  /\ \A l \in OutLinks' \ OutLinks : \E w \in Workers : l \in Held(w)
  /\ \A l \in Lost : l \notin OutLinks'

\* C16: a link is in seen_links from its claim on, hence while its detail
\* fetch runs and when its row is written; no link is ever removed from
\* seen_links during the run; a row enters the output only from the worker
\* that holds its claim, so a claimed link whose row the claiming task did not
\* write is never written by a later task.
C16_ClaimBeforePersist == []C16_State /\ [][C16_Step]_vars

\* C16 witness: a worker has skipped, as already seen, a link that an earlier
\* task claimed and did not write.
C16_Witness ==
  \E w \in Workers :
    /\ ws[w].pc = "get_place_details" /\ ws[w].i = 2
    /\ ws[w].discovered[1].Link \in Lost

\* Whether a candidate of the feed of a cell is to be let through (it has no
\* coordinates or is within the threshold), the candidates of a feed so let
\* through, and their links.
Passes(cell, el) ==
  el.pos = NoCoords \/ calculate_distance(CellPos(cell), el.pos) <= GEOFENCE_KM
Passing(cell, els) == {k \in 1..Len(els) : Passes(cell, els[k])}
PassLinks(cell, els) == {els[k].base : k \in Passing(cell, els)}

\* results are the candidates of els let through, in the order of the feed,
\* each with its coordinates, or the cell's when it has none.
Filtered(cell, els, results) ==
  \E f \in [1..Len(results) -> 1..Len(els)] :
    /\ \A m, n \in 1..Len(results) : m < n => f[m] < f[n]
    /\ {f[n] : n \in 1..Len(results)} = Passing(cell, els)
    /\ \A n \in 1..Len(results) :
         /\ results[n].Link = els[f[n]].base
         /\ results[n].Pos = IF els[f[n]].pos = NoCoords THEN CellPos(cell)
                             ELSE els[f[n]].pos

RowLinksBefore(done, n) == UNION {LinksOf(done[m].rows) : m \in 1..(n - 1)}

\* C17: the results handed to the claim loop are exactly the candidates that
\* have no coordinates or are within GEOFENCE_KM of the task's cell, those
\* without coordinates carrying the cell's; the links a task claims and writes
\* are the links of these candidates that no earlier task wrote, so a link
\* whose candidates a task rejected is neither claimed nor written by it and
\* is claimed and written by the next task that has it within the threshold.
C17_Geofence ==
  LET c == sectorCall IN
    c.pc # "none" =>
      /\ c.pc \in {"loop", "written"} => Filtered(c.cell, c.els, c.results)
      /\ c.seen = LinksOf(c.output) \cup LinksOf(c.new_rows)
      /\ LinksOf(c.new_rows) \subseteq PassLinks(c.cell, c.els)
      /\ \A n \in 1..Len(c.done) :
           LinksOf(c.done[n].rows) =
             PassLinks(c.done[n].cell, c.done[n].els) \ RowLinksBefore(c.done, n)

\* C17 witness: a link whose only candidate the first task rejected as too far
\* from its cell has been claimed and written by the second task.
C17_Witness ==
  LET c == sectorCall IN
    /\ c.pc = "written" /\ Len(c.done) = 2
    /\ \E l \in Links :
         /\ l \in {c.done[1].els[k].base : k \in 1..Len(c.done[1].els)}
         /\ l \notin PassLinks(c.done[1].cell, c.done[1].els)
         /\ l \in LinksOf(c.done[2].rows)
         /\ l \in LinksOf(c.output)

\* The tasks of the current city in the order main() enqueues them, the real
\* tasks of a queue, and the number of tasks of the city taken from the queue.
CityTasks == TasksOf(generate_grid(cities[cur]), cities[cur])
IsTask(t) == t # None
RealTasks(q) == SelectSeq(q, IsTask)
Taken == Len(CityTasks) - Len(RealTasks(queue))

\* The nested loops of main() put the tasks cell by cell and, for one cell,
\* keyword by keyword; here for two cells and the 13 keywords of the source.
KeywordOrder ==
  LET tasks == TasksFor(<<1, 2>>, 1, AllKeywords)
      K == Len(AllKeywords)
  IN  /\ Len(tasks) = 2 * K
      /\ \A i \in 1..2, k \in 1..K : tasks[(i - 1) * K + k] = Task(i, 1, AllKeywords[k])

C18_State ==
  mainpc \in {"join", "gather"} =>
    LET grid == generate_grid(cities[cur])
        K == Len(KEYWORDS)
    IN  /\ Len(CityTasks) = Len(grid) * K
        /\ \A i \in 1..Len(grid), k \in 1..K :
             CityTasks[(i - 1) * K + k] = Task(grid[i], cities[cur], KEYWORDS[k])
        /\ KeywordOrder
        /\ RealTasks(queue) = SubSeq(CityTasks, Taken + 1, Len(CityTasks))
        /\ \A n \in 1..Len(CityTasks) :
             n <= Taken <=> \/ outcome[CityTasks[n]].end # "none"
                            \/ \E w \in Workers : ws[w].task = CityTasks[n]
        /\ \A w1, w2 \in Workers :
             (w1 # w2 /\ ws[w1].task = ws[w2].task) => ws[w1].task = NoTask

C18_Step ==
  /\ \A w \in Workers :
       (ws'[w].task # ws[w].task /\ ws'[w].task # NoTask) =>
         /\ ws[w].pc \in {"get", "context_close"}
         /\ queue # <<>> /\ ws'[w].task = Head(queue) /\ queue' = Tail(queue)
  /\ RealTasks(queue') # RealTasks(queue) =>
       \/ /\ mainpc = "launch" /\ mainpc' = "join"
          /\ \A w \in Workers : ~Live(w)
          /\ queue = <<>> /\ queue' = CityTasks'
          /\ \A w \in Workers : ws'[w].pc = "get" /\ ws'[w].task = NoTask
       \/ /\ mainpc = "join"
          /\ RealTasks(queue') = Tail(RealTasks(queue))

\* C18: when the workers of a city are created its queue holds one task per
\* pair of a grid cell and a keyword, cell by cell and keyword by keyword, and
\* no worker has taken anything; afterwards no real task is added; a worker
\* gets a task only as the head of the queue, which loses it, so the tasks
\* are taken in queue order, each once and by one worker.
C18_QueueDiscipline == []C18_State /\ [][C18_Step]_vars

\* C18 witness: the two first tasks of the first city are being handled, each
\* by its own worker.
C18_Witness ==
  /\ mainpc = "join" /\ cur = 1
  /\ \E w1, w2 \in Workers :
       /\ w1 # w2 /\ Handling(w1) /\ Handling(w2)
       /\ ws[w1].task = CityTasks[1] /\ ws[w2].task = CityTasks[2]

\* The rank of a link among the claims of the run, and the rows worker w
\* writes if the detail fetch it waits for returns and is the last of its task.
ClaimIdx(l) == CHOOSE i \in 1..Len(claims) : claims[i] = l
Batch(w) ==
  Append(ws[w].new_rows, NewRow(ws[w].discovered[ws[w].i], ws[w].task))

\* C19 as stated: the rows of the output are in the order in which their
\* links were claimed.
C19_Original ==
  \A i, j \in 1..Len(output) :
    i < j => ClaimIdx(output[i].Link) < ClaimIdx(output[j].Link)

C19_State ==
  \A w \in Workers :
    ws[w].pc = "get_place_details" =>
      \A a, b \in 1..Len(Batch(w)) :
        a < b => ClaimIdx(Batch(w)[a].Link) < ClaimIdx(Batch(w)[b].Link)

C19_Step ==
  output' # output =>
    \E w \in Workers :
      /\ ws[w].pc = "get_place_details" /\ ws'[w].pc = "context_close"
      /\ output' = output \o Batch(w)

\* C19 amended: the rows of one task are appended together, when the task has
\* gone through all its results, in the order in which the task claimed their
\* links; the output is the sequence of these batches in the order of the
\* writes, whatever the order of the claims of different tasks.
C19_BatchOrder == []C19_State /\ [][C19_Step]_vars

\* C19 witness: a task that claimed two links has written its two rows.
C19_Witness ==
  /\ Len(output) = 2
  /\ \E t \in HandledTasks :
       outcome[t].end = "ok" /\ Cardinality(outcome[t].claimed) = 2

\* C20 as stated: while main() waits in queue.join(), the tasks put and not
\* yet acknowledged are the tasks still in the queue and the tasks a worker is
\* handling: every task whose handling is over, on whatever path, has been
\* acknowledged once, and the acknowledgements never exceed the tasks put.
C20_EveryTaskAcknowledged ==
  mainpc = "join" =>
    /\ unfinished >= 0
    /\ unfinished = Len(RealTasks(queue))
                    + Cardinality({w \in Workers : Handling(w)})

====
